---- MODULE Spec2Model ----
(***************************************************************************)
(* Model of the landing page's client-side glue code:                      *)
(*   src/js/form-handler.js  FormHandler: the two submit handlers, the     *)
(*                           local-storage rate limiter and its reset      *)
(*                           timer, the error display;                     *)
(*   src/i18n.js             I18n: the translation table, t(), the loading *)
(*                           of a language's table.                        *)
(* Time is counted in abstract units; Window is ATTEMPT_WINDOW_HOURS       *)
(* expressed in those units.  Text is a sequence of tokens, "." being the  *)
(* key-path separator.                                                     *)
(***************************************************************************)
EXTENDS Integers, Sequences, FiniteSets, TLC

\* ------------------------------------------------------------------ bounds
\* window.APP_CONFIG.RATE_LIMIT.MAX_ATTEMPTS_PER_HOUR (configuration)
MaxAttempts == 2
\* window.APP_CONFIG.RATE_LIMIT.ATTEMPT_WINDOW_HOURS, in time units
Window == 2
\* the clock stops advancing here
MaxTime == 3
\* loadTranslations calls that may be pending together
MaxLoads == 2
\* network calls of one form that may be pending together
MaxPending == 1

VARIABLES
    now,          \* Date.now()
    rateLimit,    \* config.RATE_LIMIT is configured
    scriptUrl,    \* config.GOOGLE_SCRIPT_URL is configured
    stored,       \* localStorage content under RATE_LIMIT.STORAGE_KEY
    storageMode,  \* "ok", "quota" (setItem throws) or "denied" (every access throws)
    timers,       \* fire times of the pending setTimeout callbacks, oldest first
    resetTimeout, \* this.resetTimeout: "unset", "live" (the last of timers) or "dead"
    capsule,      \* capsule form: pending network calls, submit button disabled
    waitlist,     \* waitlist form: the same, and whether it was replaced by the thank-you
    i18nPresent,  \* window.i18n exists
    currentLang,  \* I18n.currentLang
    translations, \* I18n.translations
    loads,        \* pending loadTranslations calls: the file being fetched, and the caller
    tableLang,    \* the file I18n.translations was parsed from, "none" for {} (observation only)
    urlLang,      \* the lang parameter of window.location.search, "" when absent
    savedLang,    \* localStorage item 'tawazn-language', "" when absent
    browserLang,  \* navigator.language
    tcall,        \* the last t() call: key, params and the value returned (observation only)
    ev,           \* what the last step did (observation only)
    calls,        \* times of the recordSubmission() calls still inside the window (observation only)
    healthy       \* storage has worked and held a well-formed log so far, which only the
                  \* submissions and the timer have changed (observation only)

vars == <<now, rateLimit, scriptUrl, stored, storageMode, timers, resetTimeout,
          capsule, waitlist, i18nPresent, currentLang, translations, loads,
          tableLang, urlLang, savedLang, browserLang, tcall, ev, calls, healthy>>

\* the page's address, the persisted language and the browser's locale
pageVars == <<urlLang, savedLang, browserLang>>

\* ------------------------------------------------------------------ text
ErrorKinds == {"networkError", "validationError", "rateLimitError", "serverError", "unknownError"}
Langs == {"en", "id", "ar"}

Undef == [t |-> "undef", v |-> <<>>]
Str(s) == [t |-> "str", v |-> s]
Obj(f) == [t |-> "obj", v |-> f]

\* `a || b` on values: undefined, the empty string and 0 are falsy
Truthy(x) == \/ x.t \in {"obj", "fn"}
             \/ x.t = "str" /\ x.v # <<>>
             \/ x.t = "num" /\ x.v # 0

OrElse(a, b) == IF Truthy(a) THEN a ELSE b

Includes(msg, tok) == \E i \in 1..Len(msg) : msg[i] = tok

\* key.split('.')
RECURSIVE Split(_)
Split(s) ==
    IF \E i \in 1..Len(s) : s[i] = "."
    THEN LET i == CHOOSE j \in 1..Len(s) : s[j] = "." /\ \A k \in 1..(j-1) : s[k] # "."
         IN  <<SubSeq(s, 1, i-1)>> \o Split(SubSeq(s, i+1, Len(s)))
    ELSE <<s>>

Num(n) == [t |-> "num", v |-> n]
Fn(name) == [t |-> "fn", v |-> name]

\* the properties every object, string, number and function inherits (two of them)
Inherited == {<<"constructor">>, <<"toString">>}

\* the segment as an array index, -1 when it is none
IndexOf(k) == IF k = <<"0">> THEN 0 ELSE IF k = <<"1">> THEN 1 ELSE -1

\* value?.[k]: an own property, else what the value's kind provides (a string's
\* length and characters, a function's length, the inherited methods), else undefined
Lookup(value, k) ==
    IF value.t = "undef" THEN Undef
    ELSE IF value.t = "obj" /\ k \in DOMAIN value.v THEN value.v[k]
    ELSE IF value.t = "str" /\ k = <<"length">> THEN Num(Len(value.v))
    ELSE IF value.t = "str" /\ IndexOf(k) >= 0 /\ IndexOf(k) < Len(value.v)
         THEN Str(<<value.v[IndexOf(k) + 1]>>)
    ELSE IF value.t = "fn" /\ k = <<"length">>
         THEN Num(IF value.v = <<"constructor">> THEN 1 ELSE 0)
    ELSE IF k \in Inherited THEN Fn(k)
    ELSE Undef

RECURSIVE Walk(_, _)
Walk(value, keys) ==
    IF keys = <<>> THEN value ELSE Walk(Lookup(value, Head(keys)), Tail(keys))

NoParams == [n \in {} |-> <<>>]

IsWord(tok) == tok \notin {".", "{{", "}}", " ", ""}

\* params[param]: the entry of params, or what every object inherits
ParamOf(params, param) ==
    IF param \in DOMAIN params THEN Str(params[param])
    ELSE IF <<param>> \in Inherited THEN Fn(<<param>>)
    ELSE Undef

\* String(value), as replace() inserts the callback's result
TextOf(x) ==
    IF x.t = "str" THEN x.v
    ELSE IF x.t = "fn" THEN <<"function ">> \o x.v \o <<"() { [native code] }">>
    ELSE <<"undefined">>

\* value.replace(/\{\{(\w+)\}\}/g, (match, param) => params[param] || match)
RECURSIVE Interpolate(_, _)
Interpolate(s, params) ==
    IF s = <<>> THEN <<>>
    ELSE IF Len(s) >= 3 /\ s[1] = "{{" /\ IsWord(s[2]) /\ s[3] = "}}"
         THEN TextOf(OrElse(ParamOf(params, s[2]), Str(SubSeq(s, 1, 3))))
              \o Interpolate(SubSeq(s, 4, Len(s)), params)
         ELSE <<Head(s)>> \o Interpolate(Tail(s), params)

\* I18n.t(key, params)
T(key, params) ==
    LET value == Walk(translations, Split(key))
    IN  IF value.t = "str"
        THEN Str(Interpolate(value.v, params))
        ELSE OrElse(value, Str(key))

ErrorKey(errorType) == <<"errorModal", ".", errorType>>

\* the tables the translation files may hold
EmptyTable == Obj([k \in {} |-> Undef])
ErrorEntries(kinds) == Obj([k \in {<<x>> : x \in kinds} |-> Str(<<"translated", k[1]>>)])
TableOf(kinds) == Obj([k \in {<<"errorModal">>} |-> ErrorEntries(kinds)])
FileTables == { TableOf(ErrorKinds \cup {"title", "tryAgain"}),
                TableOf({"networkError", "title"}),
                Obj([k \in {<<"modal">>} |-> Obj([j \in {<<"title">>} |-> Str(<<"Saved">>)])]) }

\* the table of translations/<lang>.json in the runs that switch languages: each
\* file names its language
FileOf(lang) == Obj([k \in {<<"lang">>} |-> Str(<<lang>>)])

\* tables, keys and params for the runs that call t()
Hello == <<"hi ", "{{", "name", "}}", ", ", "{{", "name", "}}", "!">>
Bye == <<"bye ", "{{", "other", "}}">>
TTables ==
    { Obj([k \in {<<"greet">>, <<"title">>, <<"empty">>, <<"odd">>} |->
              CASE k = <<"greet">> ->
                       Obj([j \in {<<"hello">>, <<"bye">>} |->
                               IF j = <<"hello">> THEN Str(Hello) ELSE Str(Bye)])
                [] k = <<"title">> -> Str(<<"T", "i">>)
                [] k = <<"empty">> -> Str(<<>>)
                [] OTHER -> Str(<<"{{", "constructor", "}}">>)]),
      Obj([k \in {<<"title">>} |-> Obj([j \in {<<"length">>} |-> Str(<<"long">>)])]) }
TKeys ==
    { <<"greet", ".", "hello">>, <<"greet", ".", "bye">>, <<"title">>, <<"empty">>, <<"odd">>,
      <<"greet">>, <<"missing">>, <<"greet", ".", "missing">>, <<"missing", ".", "key">>,
      <<"title", ".", "x">>, <<"title", ".", "length">>, <<"title", ".", "0">>,
      <<"empty", ".", "length">>, <<"toString">>, <<"greet", ".", "hello", ".", "x">> }
TParams ==
    { NoParams,
      [n \in {"name"} |-> <<"Ann">>],
      [n \in {"name"} |-> <<>>],
      [n \in {"name", "other"} |-> IF n = "name" THEN <<"Ann">> ELSE <<"Bob">>] }

NoCall == [key |-> <<>>, params |-> NoParams, out |-> Undef]

\* ------------------------------------------------------------------ language
\* locales are sequences of characters
UpperCase == <<"A", "B", "D", "E", "G", "I", "N", "R", "S", "U">>
LowerCase == <<"a", "b", "d", "e", "g", "i", "n", "r", "s", "u">>

Lower(c) ==
    IF \E i \in 1..Len(UpperCase) : UpperCase[i] = c
    THEN LowerCase[CHOOSE i \in 1..Len(UpperCase) : UpperCase[i] = c]
    ELSE c

ToLowerCase(s) == [i \in 1..Len(s) |-> Lower(s[i])]

StartsWith(s, prefix) == Len(s) >= Len(prefix) /\ SubSeq(s, 1, Len(prefix)) = prefix

IncludesString(s, sub) ==
    \E i \in 1..(Len(s) - Len(sub) + 1) : SubSeq(s, i, i + Len(sub) - 1) = sub

\* s.split(sep)
RECURSIVE SplitOn(_, _)
SplitOn(s, sep) ==
    IF \E i \in 1..Len(s) : s[i] = sep
    THEN LET i == CHOOSE j \in 1..Len(s) : s[j] = sep /\ \A k \in 1..(j-1) : s[k] # sep
         IN  <<SubSeq(s, 1, i-1)>> \o SplitOn(SubSeq(s, i+1, Len(s)), sep)
    ELSE <<s>>

\* the Arabic word of line 32, letter by letter
ArabicWord == <<"alif", "lam", "ayn", "ra", "ba", "ya", "ta marbuta">>

\* detectLanguage(): from the URL's lang parameter, the persisted choice and
\* navigator.language
DetectLanguage(url, saved, locale) ==
    IF url # "" /\ url \in Langs THEN url
    ELSE IF saved # "" /\ saved \in Langs THEN saved
    ELSE LET langLower == ToLowerCase(locale)
             primaryLang == ToLowerCase(SplitOn(locale, "-")[1])
         IN  IF \/ StartsWith(langLower, <<"i", "d">>)
                \/ IncludesString(langLower, <<"i", "n", "d", "o", "n", "e", "s", "i", "a">>)
                \/ IncludesString(langLower, <<"b", "a", "h", "a", "s", "a">>)
             THEN "id"
             ELSE IF \/ StartsWith(langLower, <<"a", "r">>)
                     \/ IncludesString(langLower, <<"a", "r", "a", "b", "i", "c">>)
                     \/ IncludesString(langLower, ArabicWord)
             THEN "ar"
             ELSE IF primaryLang = <<"i", "d">> THEN "id"
             ELSE IF primaryLang = <<"a", "r">> THEN "ar"
             ELSE "id"

\* what the visitor's address, storage and browser may hold; each locale comes with
\* the supported language it belongs to ("" for none), known by construction
Urls == {"", "en", "ar", "fr"}
Saveds == {"", "en", "id", "de"}
Locales ==
    { [text |-> <<"e", "n", "-", "U", "S">>, lang |-> "en"],
      [text |-> <<"e", "n">>, lang |-> "en"],
      [text |-> <<"i", "d", "-", "I", "D">>, lang |-> "id"],
      [text |-> <<"A", "R", "-", "e", "g">>, lang |-> "ar"],
      [text |-> <<"a", "r">>, lang |-> "ar"],
      [text |-> <<"f", "r", "-", "F", "R">>, lang |-> ""],
      [text |-> <<>>, lang |-> ""] }
EnUS == <<"e", "n", "-", "U", "S">>

\* ------------------------------------------------------------------ form data
Trim(s) ==
    LET idx == {i \in 1..Len(s) : s[i] # " "}
    IN  IF idx = {} THEN <<>>
        ELSE SubSeq(s, CHOOSE i \in idx : \A j \in idx : i <= j,
                       CHOOSE i \in idx : \A j \in idx : i >= j)

Rep(c, n) == [i \in 1..n |-> c]

\* what the user may have typed: a well-formed address and malformed ones
GoodEmail == <<" ", "a", ".", "b", "@", "c", ".", "d", ".", "e", " ">>
BadEmails == { <<"a", "@", "b">>, <<"a", " ", "@", "b", ".", "c">>,
               <<"a", "@", "@", "b", ".", "c">> }
Emails == {GoodEmail} \cup BadEmails
GoodName == <<"a", "b">>
Names == { GoodName, <<>>, <<" ", "a", " ">> }
GoodResolution == Rep("x", 10)
Resolutions == { GoodResolution, <<>>, <<" ">> \o Rep("x", 9) \o <<" ">> }
\* the capsule form's fields: all good, or one of them bad
CapsuleData ==
    {[name |-> n, email |-> GoodEmail, resolution |-> GoodResolution] : n \in Names}
    \cup {[name |-> GoodName, email |-> m, resolution |-> GoodResolution] : m \in Emails}
    \cup {[name |-> GoodName, email |-> GoodEmail, resolution |-> r] : r \in Resolutions}
WaitlistData == [email : Emails]
\* the inputs that are well-formed by construction (observation only)
GoodCapsuleData == {[name |-> GoodName, email |-> GoodEmail, resolution |-> GoodResolution]}
GoodWaitlistData == {[email |-> GoodEmail]}

NotSpaceAt(s, lo, hi) == \A k \in lo..hi : s[k] \notin {" ", "@"}

\* validateEmail: /^[^\s@]+@[^\s@]+\.[^\s@]+$/.test(email)
ValidateEmail(email) ==
    \E i \in 2..Len(email) : \E j \in (i+2)..(Len(email)-1) :
        /\ email[i] = "@"
        /\ email[j] = "."
        /\ NotSpaceAt(email, 1, i-1)
        /\ NotSpaceAt(email, i+1, j-1)
        /\ NotSpaceAt(email, j+1, Len(email))

\* ------------------------------------------------------------------ messages
FallbackMessages(errorType) ==
    CASE errorType = "networkError" -> <<"Network error. Please check your connection and try again.">>
      [] errorType = "validationError" -> <<"Please fill in all required fields correctly.">>
      [] errorType = "rateLimitError" -> <<"Too many submission attempts. Please try again later.">>
      [] errorType = "serverError" -> <<"Server error. Please try again in a few moments.">>
      [] OTHER -> <<"Something went wrong. Please try again.">>

\* getErrorMessage(errorType)
GetErrorMessage(errorType) ==
    IF i18nPresent
    THEN OrElse(T(ErrorKey(errorType), NoParams), T(ErrorKey("unknownError"), NoParams))
    ELSE Str(FallbackMessages(errorType))

\* showError(message, errorType): what the error modal then displays
ShowError(message, errorType) ==
    [kind |-> errorType,
     text |-> IF i18nPresent
              THEN OrElse(T(ErrorKey(errorType), NoParams), message)
              ELSE message]

NoDisplay == [kind |-> "none", text |-> Undef]

\* validateFormData without the check of the resolution
ValidateFormDataNoResolution(data) ==
    IF Len(data.name) < 2
    THEN [ok |-> FALSE, shown |-> ShowError(Str(<<"Please enter your name (at least 2 characters).">>), "validationError")]
    ELSE IF ~ValidateEmail(data.email)
    THEN [ok |-> FALSE, shown |-> ShowError(Str(<<"Please enter a valid email address.">>), "validationError")]
    ELSE [ok |-> TRUE, shown |-> NoDisplay]

\* validateFormData(data), on the trimmed fields: whether it passes and what it displays
ValidateFormData(data) ==
    IF Len(data.name) < 2
    THEN [ok |-> FALSE, shown |-> ShowError(Str(<<"Please enter your name (at least 2 characters).">>), "validationError")]
    ELSE IF ~ValidateEmail(data.email)
    THEN [ok |-> FALSE, shown |-> ShowError(Str(<<"Please enter a valid email address.">>), "validationError")]
    ELSE IF Len(data.resolution) < 10
    THEN [ok |-> FALSE, shown |-> ShowError(Str(<<"Please write a more detailed resolution (at least 10 characters).">>), "validationError")]
    ELSE [ok |-> TRUE, shown |-> NoDisplay]

\* the messages a rejected fetch may carry
FetchErrors == { <<"Failed to ", "fetch">>,
                 <<"NetworkError", " when attempting to ", "fetch", " resource.">>,
                 <<"Load failed">> }

\* the catch block of the submit handlers: the error type chosen for error.message
CatchErrorType(msg) ==
    IF Includes(msg, "fetch") THEN "networkError"
    ELSE IF Includes(msg, "NetworkError") THEN "networkError"
    ELSE "unknownError"

\* submitToGoogleScript with a rejected fetch reporting success all the same
SubmitResultSwallowsError(msg) == [success |-> TRUE, error |-> Undef, errorType |-> "none"]

\* submitToGoogleScript's result: without GOOGLE_SCRIPT_URL no fetch is made and
\* success is returned; otherwise once the fetch has settled (msg = <<>>: resolved,
\* else the message of the rejection)
SubmitResult(msg) ==
    IF ~scriptUrl \/ msg = <<>>
    THEN [success |-> TRUE, error |-> Undef, errorType |-> "none"]
    ELSE LET errorType == IF Includes(msg, "fetch") THEN "networkError"
                          ELSE IF Includes(msg, "Failed to fetch") THEN "networkError"
                          ELSE IF Includes(msg, "NetworkError") THEN "networkError"
                          ELSE "serverError"
         IN  [success |-> FALSE, error |-> GetErrorMessage(errorType), errorType |-> errorType]

\* ------------------------------------------------------------------ rate limiting
Absent == [kind |-> "absent", log |-> <<>>]
ArrayOf(log) == [kind |-> "array", log |-> log]
StoredKinds == {"absent", "badjson", "nonarray", "array"}

WindowStart == now - Window

\* the filter letting every timestamp through
RecentKeepsAll(log) == log

\* the filter over the closed window: timestamp >= windowStart
RecentClosed(log) == SelectSeq(log, LAMBDA t : t >= WindowStart)

\* attempts.filter(timestamp => timestamp > windowStart)
Recent(log) == SelectSeq(log, LAMBDA t : t > WindowStart)

Min(log) == CHOOSE t \in {log[i] : i \in 1..Len(log)} : \A i \in 1..Len(log) : t <= log[i]

\* getSubmissionAttempts(): the parsed value, an array or not
GetSubmissionAttempts(st) ==
    IF ~rateLimit THEN [isArray |-> TRUE, log |-> <<>>]
    ELSE IF storageMode = "denied" THEN [isArray |-> TRUE, log |-> <<>>]
    ELSE IF st.kind = "absent" THEN [isArray |-> TRUE, log |-> <<>>]
    ELSE IF st.kind = "badjson" THEN [isArray |-> TRUE, log |-> <<>>]
    ELSE IF st.kind = "nonarray" THEN [isArray |-> FALSE, log |-> <<>>]
    ELSE [isArray |-> TRUE, log |-> st.log]

\* saveSubmissionAttempts(attempts): the stored value afterwards
SaveSubmissionAttempts(st, attempts) ==
    IF ~rateLimit THEN st
    ELSE IF storageMode # "ok" THEN st
    ELSE ArrayOf(attempts)

\* canSubmit() letting one attempt more through
CanSubmitOneMore(st) ==
    IF ~rateLimit THEN "true"
    ELSE LET attempts == GetSubmissionAttempts(st)
         IN  IF ~attempts.isArray THEN "throw"
             ELSE IF Len(Recent(attempts.log)) <= MaxAttempts THEN "true" ELSE "false"

\* canSubmit(): "true", "false", or "throw" (a TypeError leaves it)
CanSubmit(st) ==
    IF ~rateLimit THEN "true"
    ELSE LET attempts == GetSubmissionAttempts(st)
         IN  IF ~attempts.isArray THEN "throw"
             ELSE IF Len(Recent(attempts.log)) < MaxAttempts THEN "true" ELSE "false"

\* getNextResetTime(): -1 stands for null, -2 for a TypeError
GetNextResetTime(st) ==
    IF ~rateLimit THEN -1
    ELSE LET attempts == GetSubmissionAttempts(st)
         IN  IF ~attempts.isArray THEN -2
             ELSE IF Len(Recent(attempts.log)) = 0 THEN -1
             ELSE Min(Recent(attempts.log)) + Window

\* the part of the state the rate limiter's methods work on; exc is the message of
\* the exception that left the method, <<>> when it returned; cancelled records that
\* clearTimeout cancelled a pending timer, nested counts the calls of resetRateLimit,
\* checkAndUpdateRateLimitDisplay and scheduleRateLimitReset made so far in the
\* running handler (both observation only)
GateOf ==
    [stored |-> stored, timers |-> timers, resetTimeout |-> resetTimeout,
     capDisabled |-> capsule.disabled, wlDisabled |-> waitlist.disabled, exc |-> <<>>,
     cancelled |-> FALSE, nested |-> 0]

\* one more call of a rate limiter method has begun
Enter(g) == [g EXCEPT !.nested = @ + 1]

Throw(g, msg) == [g EXCEPT !.exc = msg]

\* updateRateLimitDisplay(remaining, max)
UpdateRateLimitDisplay(g, remaining) ==
    [g EXCEPT !.capDisabled = (remaining = 0), !.wlDisabled = (remaining = 0)]

\* setTimeout without the clearTimeout before it
SetResetTimeoutStacks(g, at) ==
    [g EXCEPT !.timers = Append(g.timers, at), !.resetTimeout = "live"]

\* clearTimeout(this.resetTimeout); this.resetTimeout = setTimeout(..., delay)
SetResetTimeout(g, at) ==
    LET kept == IF g.resetTimeout = "live" THEN SubSeq(g.timers, 1, Len(g.timers) - 1)
                ELSE g.timers
    IN  [g EXCEPT !.timers = Append(kept, at), !.resetTimeout = "live",
                  !.cancelled = (g.resetTimeout = "live")]

RECURSIVE CheckAndUpdateRateLimitDisplay(_), ScheduleRateLimitReset(_, _), ResetRateLimit(_)

\* resetRateLimit without the test of config.RATE_LIMIT
ResetRateLimitNoGuard(g) ==
    IF storageMode = "denied" THEN Throw(g, <<"The operation is insecure.">>)
    ELSE LET g1 == CheckAndUpdateRateLimitDisplay([g EXCEPT !.stored = Absent])
         IN  IF g1.exc # <<>> THEN g1
             ELSE [g1 EXCEPT !.capDisabled = FALSE, !.wlDisabled = FALSE]

\* resetRateLimit without the removeItem
ResetRateLimitKeepsLog(g) ==
    IF ~rateLimit THEN g
    ELSE LET g1 == CheckAndUpdateRateLimitDisplay(g)
         IN  IF g1.exc # <<>> THEN g1
             ELSE [g1 EXCEPT !.capDisabled = FALSE, !.wlDisabled = FALSE]

\* resetRateLimit()
ResetRateLimit(g) ==
    IF ~rateLimit THEN Enter(g)
    ELSE IF storageMode = "denied" THEN Throw(Enter(g), <<"The operation is insecure.">>)
    ELSE LET g1 == CheckAndUpdateRateLimitDisplay([Enter(g) EXCEPT !.stored = Absent])
         IN  IF g1.exc # <<>> THEN g1
             ELSE [g1 EXCEPT !.capDisabled = FALSE, !.wlDisabled = FALSE]

\* scheduleRateLimitReset setting its timer a whole window after the call
ScheduleRateLimitResetFromNow(g, resetTime) ==
    SetResetTimeout(g, now + Window)

\* scheduleRateLimitReset(resetTime)
ScheduleRateLimitReset(g, resetTime) ==
    LET diff == resetTime - now
        delay == IF diff > 0 THEN diff ELSE 0
    IN  IF delay <= 0 THEN ResetRateLimit(Enter(g))
        ELSE SetResetTimeout(Enter(g), now + delay)

\* checkAndUpdateRateLimitDisplay()
CheckAndUpdateRateLimitDisplay(g) ==
    IF ~rateLimit THEN Enter(g)
    ELSE LET attempts == GetSubmissionAttempts(g.stored)
             recentAttempts == Recent(attempts.log)
             left == MaxAttempts - Len(recentAttempts)
             remainingAttempts == IF left > 0 THEN left ELSE 0
             g1 == UpdateRateLimitDisplay(Enter(g), remainingAttempts)
         IN  IF ~attempts.isArray THEN Throw(Enter(g), <<"attempts.filter is not a function">>)
             ELSE IF Len(recentAttempts) > 0 /\ remainingAttempts = 0
                  THEN ScheduleRateLimitReset(g1, Min(recentAttempts) + Window)
                  ELSE g1

\* recordSubmission saving the log unfiltered
RecordSubmissionNoPrune(g) ==
    IF ~rateLimit THEN g
    ELSE LET attempts == GetSubmissionAttempts(g.stored)
         IN  IF ~attempts.isArray THEN Throw(g, <<"attempts.push is not a function">>)
             ELSE CheckAndUpdateRateLimitDisplay(
                      [g EXCEPT !.stored = SaveSubmissionAttempts(g.stored, Append(attempts.log, now))])

\* recordSubmission()
RecordSubmission(g) ==
    IF ~rateLimit THEN g
    ELSE LET attempts == GetSubmissionAttempts(g.stored)
             recentAttempts == Recent(Append(attempts.log, now))
         IN  IF ~attempts.isArray THEN Throw(g, <<"attempts.push is not a function">>)
             ELSE CheckAndUpdateRateLimitDisplay(
                      [g EXCEPT !.stored = SaveSubmissionAttempts(g.stored, recentAttempts)])

\* showRateLimitError(): the display and both submit buttons
BlockMessage == <<"Too many submission attempts. Please try again later.">>

ShowRateLimitError(g) ==
    [g EXCEPT !.capDisabled = TRUE, !.wlDisabled = TRUE]

\* ------------------------------------------------------------------ steps
NoRet == [k |-> "none", n |-> 0]

NoEv(op, form) ==
    [op |-> op, form |-> form, cause |-> "none", invalid |-> FALSE, posted |-> FALSE,
     recorded |-> FALSE, cancelled |-> FALSE, uncaught |-> FALSE, shown |-> NoDisplay,
     ret |-> NoRet, emitted |-> "", nested |-> 0]

PruneCalls(c, t) == SelectSeq(c, LAMBDA x : x >= t - Window)

WellFormed(st) == st.kind \in {"absent", "array"}

\* new FormHandler(): init() ends with checkAndUpdateRateLimitDisplay()
Construct(st) ==
    CheckAndUpdateRateLimitDisplay(
        [stored |-> st, timers |-> <<>>, resetTimeout |-> "unset",
         capDisabled |-> FALSE, wlDisabled |-> FALSE, exc |-> <<>>, cancelled |-> FALSE,
         nested |-> 0])

\* a loadTranslations(file) call with its fetch pending: lang is the language its
\* caller was asked for, by the caller ("init" or "setLanguage"), fetches the number
\* of fetches made for that caller so far, this one included (observation only)
Load(file, lang, by) == [file |-> file, lang |-> lang, by |-> by, fetches |-> 1]

\* the catch block calling loadTranslations('en') after any failure
RetriesAlways(load, table) == table = Undef

\* the catch block of loadTranslations calls loadTranslations('en'): the fetch
\* failed and the file was not en.json
Retries(load, table) == table = Undef /\ load.file # "en"

\* new I18n(): currentLang = detectLanguage(), translations = {}, init() has started
\* loadTranslations(currentLang)
ConstructI18n ==
    /\ currentLang' = DetectLanguage(urlLang, savedLang, browserLang)
    /\ translations' = EmptyTable
    /\ tableLang' = "none"
    /\ loads' = <<Load(currentLang', currentLang', "init")>>

\* the state once the page's scripts have run: new FormHandler() and, when the page
\* includes i18n.js, new I18n(); time 0 is the first page load on this device
Start(modes, kinds, present, urls, saveds, locales) ==
    /\ now = 0
    /\ rateLimit \in BOOLEAN
    /\ scriptUrl \in BOOLEAN
    /\ storageMode \in modes
    /\ \E k \in kinds :
          /\ stored = [kind |-> k, log |-> <<>>]
          /\ healthy = (WellFormed(stored) /\ storageMode = "ok")
    /\ i18nPresent \in present
    /\ urlLang \in urls
    /\ savedLang \in saveds
    /\ browserLang \in locales
    /\ currentLang = IF i18nPresent THEN DetectLanguage(urlLang, savedLang, browserLang)
                     ELSE "id"
    /\ translations = EmptyTable
    /\ tableLang = "none"
    /\ loads = IF i18nPresent THEN <<Load(currentLang, currentLang, "init")>> ELSE <<>>
    /\ tcall = NoCall
    /\ calls = <<>>
    /\ LET g == Construct(stored)
       IN  /\ timers = g.timers
           /\ resetTimeout = g.resetTimeout
           /\ capsule = [pending |-> 0, disabled |-> g.capDisabled]
           /\ waitlist = [pending |-> 0, disabled |-> g.wlDisabled, removed |-> FALSE]
           /\ ev = [NoEv("init", "none") EXCEPT !.uncaught = (g.exc # <<>>),
                                                !.nested = g.nested]

\* a page without i18n.js
Init == Start({"ok"}, StoredKinds \ {"array"}, {FALSE}, {""}, {""}, {EnUS})

\* the page is loaded again: a new document, a new FormHandler and a new I18n;
\* pending timers and continuations of the old document are gone
Reload ==
    /\ LET g == Construct(stored)
       IN  /\ timers' = g.timers
           /\ resetTimeout' = g.resetTimeout
           /\ capsule' = [pending |-> 0, disabled |-> g.capDisabled]
           /\ waitlist' = [pending |-> 0, disabled |-> g.wlDisabled, removed |-> FALSE]
           /\ ev' = [NoEv("init", "none") EXCEPT !.uncaught = (g.exc # <<>>),
                                                !.nested = g.nested]
    /\ IF i18nPresent THEN ConstructI18n
       ELSE UNCHANGED <<currentLang, translations, tableLang, loads>>
    /\ tcall' = NoCall
    /\ UNCHANGED <<now, rateLimit, scriptUrl, stored, storageMode, i18nPresent, pageVars,
                   calls, healthy>>

\* time passes
Tick ==
    /\ now < MaxTime
    /\ now' = now + 1
    /\ calls' = PruneCalls(calls, now + 1)
    /\ ev' = NoEv("tick", "none")
    /\ UNCHANGED <<rateLimit, scriptUrl, stored, storageMode, timers, resetTimeout,
                   capsule, waitlist, i18nPresent, pageVars, tableLang, tcall, currentLang, translations, loads, healthy>>

\* the browser's storage stops working: writes fail (the quota is exhausted) or
\* every access fails (site data is blocked)
SetStorageMode(m) ==
    /\ storageMode = "ok"
    /\ m # "ok"
    /\ storageMode' = m
    /\ healthy' = FALSE
    /\ calls' = <<>>
    /\ ev' = NoEv("storage", "none")
    /\ UNCHANGED <<now, rateLimit, scriptUrl, stored, timers, resetTimeout,
                   capsule, waitlist, i18nPresent, pageVars, tableLang, tcall, currentLang, translations, loads>>

\* the gate's state after a handler's synchronous part
SetGate(g, capPending, capDisabled, wlPending, wlDisabled, wlRemoved) ==
    /\ stored' = g.stored
    /\ timers' = g.timers
    /\ resetTimeout' = g.resetTimeout
    /\ capsule' = [pending |-> capPending, disabled |-> capDisabled]
    /\ waitlist' = [pending |-> wlPending, disabled |-> wlDisabled, removed |-> wlRemoved]

\* handleTimeCapsuleSubmit from `if (response.success)` to the end of `finally`
CapsuleResume(e, msg, pend) ==
    LET response == SubmitResult(msg)
        g1 == IF response.success THEN RecordSubmission(GateOf) ELSE GateOf
        shown == IF response.success
                 THEN IF g1.exc # <<>> THEN ShowError(Str(g1.exc), CatchErrorType(g1.exc))
                      ELSE NoDisplay
                 ELSE ShowError(OrElse(response.error, Str(<<"Failed to submit form. Please try again.">>)),
                                IF response.errorType = "none" THEN "serverError" ELSE response.errorType)
    IN  /\ SetGate(g1, pend, FALSE, waitlist.pending, g1.wlDisabled, waitlist.removed)
        /\ calls' = IF response.success /\ rateLimit /\ healthy THEN Append(calls, now) ELSE calls
        /\ ev' = [e EXCEPT !.cause = IF msg # <<>> THEN "rejected"
                                      ELSE IF g1.exc # <<>> THEN "exception" ELSE "success",
                           !.recorded = response.success,
                           !.cancelled = g1.cancelled,
                           !.nested = g1.nested,
                           !.shown = shown]

\* handleTimeCapsuleSubmit(e) up to `await this.submitToGoogleScript(formData)`
HandleTimeCapsuleSubmit(raw) ==
    /\ ~capsule.disabled
    /\ capsule.pending < MaxPending
    /\ LET can == CanSubmit(stored)
           formData == [name |-> Trim(raw.name), email |-> Trim(raw.email),
                        resolution |-> Trim(raw.resolution)]
           valid == ValidateFormData(formData)
           e == [NoEv("submit", "capsule") EXCEPT !.invalid = (raw \notin GoodCapsuleData)]
       IN  CASE can = "throw" ->
                  /\ ev' = [e EXCEPT !.cause = "exception", !.uncaught = TRUE]
                  /\ UNCHANGED <<stored, timers, resetTimeout, capsule, waitlist, calls>>
             [] can = "false" ->
                  /\ LET g == ShowRateLimitError(GateOf)
                     IN  SetGate(g, capsule.pending, g.capDisabled, waitlist.pending,
                                 g.wlDisabled, waitlist.removed)
                  /\ ev' = [e EXCEPT !.cause = "denied",
                                     !.shown = ShowError(Str(BlockMessage), "rateLimitError")]
                  /\ UNCHANGED calls
             [] can = "true" /\ ~valid.ok ->
                  /\ ev' = [e EXCEPT !.cause = "invalid",
                                     !.shown = ShowError(Str(<<"Please fill in all required fields correctly.">>),
                                                         CatchErrorType(<<"Please fill in all required fields correctly.">>))]
                  /\ capsule' = [capsule EXCEPT !.disabled = FALSE]
                  /\ UNCHANGED <<stored, timers, resetTimeout, waitlist, calls>>
             [] can = "true" /\ valid.ok /\ ~scriptUrl ->
                  CapsuleResume(e, <<>>, capsule.pending)
             [] OTHER ->
                  /\ ev' = [e EXCEPT !.cause = "pending", !.posted = TRUE]
                  /\ capsule' = [pending |-> capsule.pending + 1, disabled |-> TRUE]
                  /\ UNCHANGED <<stored, timers, resetTimeout, waitlist, calls>>
    /\ UNCHANGED <<now, rateLimit, scriptUrl, storageMode, i18nPresent, pageVars, tableLang, tcall, currentLang,
                   translations, loads, healthy>>

\* the capsule form's fetch settles: msg = <<>> resolved, otherwise the rejection's message
CapsuleSettle(msg) ==
    /\ capsule.pending > 0
    /\ CapsuleResume(NoEv("settle", "capsule"), msg, capsule.pending - 1)
    /\ UNCHANGED <<now, rateLimit, scriptUrl, storageMode, i18nPresent, pageVars, tableLang, tcall, currentLang,
                   translations, loads, healthy>>

\* handleWaitlistSubmit from `if (response.success)` to the end of `catch`
WaitlistResume(e, msg, pend) ==
    LET response == SubmitResult(msg)
        g1 == IF response.success THEN RecordSubmission(GateOf) ELSE GateOf
        \* showWaitlistSuccess(form): form.parentElement is null once the form was replaced
        exc == IF ~response.success THEN <<>>
               ELSE IF g1.exc # <<>> THEN g1.exc
               ELSE IF waitlist.removed THEN <<"Cannot set properties of null (setting 'innerHTML')">>
               ELSE <<>>
        shown == IF response.success
                 THEN IF exc # <<>> THEN ShowError(Str(exc), CatchErrorType(exc)) ELSE NoDisplay
                 ELSE ShowError(OrElse(response.error, Str(<<"Failed to join waitlist. Please try again.">>)),
                                IF response.errorType = "none" THEN "serverError" ELSE response.errorType)
    IN  /\ SetGate(g1, capsule.pending, g1.capDisabled, pend,
                   IF exc # <<>> THEN TRUE ELSE g1.wlDisabled,
                   waitlist.removed \/ (response.success /\ exc = <<>>))
        /\ calls' = IF response.success /\ rateLimit /\ healthy THEN Append(calls, now) ELSE calls
        /\ ev' = [e EXCEPT !.cause = IF msg # <<>> THEN "rejected"
                                      ELSE IF exc # <<>> THEN "exception" ELSE "success",
                           !.recorded = response.success,
                           !.cancelled = g1.cancelled,
                           !.nested = g1.nested,
                           !.shown = shown]

\* handleWaitlistSubmit(e) up to `await this.submitToGoogleScript(formData)`
HandleWaitlistSubmit(raw) ==
    /\ ~waitlist.disabled
    /\ ~waitlist.removed
    /\ waitlist.pending < MaxPending
    /\ LET can == CanSubmit(stored)
           formData == [email |-> Trim(raw.email)]
           valid == ValidateEmail(formData.email)
           e == [NoEv("submit", "waitlist") EXCEPT !.invalid = (raw \notin GoodWaitlistData)]
       IN  CASE can = "throw" ->
                  /\ ev' = [e EXCEPT !.cause = "exception", !.uncaught = TRUE]
                  /\ UNCHANGED <<stored, timers, resetTimeout, capsule, waitlist, calls>>
             [] can = "false" ->
                  /\ LET g == ShowRateLimitError(GateOf)
                     IN  SetGate(g, capsule.pending, g.capDisabled, waitlist.pending,
                                 g.wlDisabled, waitlist.removed)
                  /\ ev' = [e EXCEPT !.cause = "denied",
                                     !.shown = ShowError(Str(BlockMessage), "rateLimitError")]
                  /\ UNCHANGED calls
             [] can = "true" /\ ~valid ->
                  /\ ev' = [e EXCEPT !.cause = "invalid",
                                     !.shown = ShowError(Str(<<"Please enter a valid email address.">>),
                                                         CatchErrorType(<<"Please enter a valid email address.">>))]
                  /\ waitlist' = [waitlist EXCEPT !.disabled = TRUE]
                  /\ UNCHANGED <<stored, timers, resetTimeout, capsule, calls>>
             [] can = "true" /\ valid /\ ~scriptUrl ->
                  WaitlistResume(e, <<>>, waitlist.pending)
             [] OTHER ->
                  /\ ev' = [e EXCEPT !.cause = "pending", !.posted = TRUE]
                  /\ waitlist' = [waitlist EXCEPT !.pending = @ + 1, !.disabled = TRUE]
                  /\ UNCHANGED <<stored, timers, resetTimeout, capsule, calls>>
    /\ UNCHANGED <<now, rateLimit, scriptUrl, storageMode, i18nPresent, pageVars, tableLang, tcall, currentLang,
                   translations, loads, healthy>>

\* the waitlist form's fetch settles
WaitlistSettle(msg) ==
    /\ waitlist.pending > 0
    /\ WaitlistResume(NoEv("settle", "waitlist"), msg, waitlist.pending - 1)
    /\ UNCHANGED <<now, rateLimit, scriptUrl, storageMode, i18nPresent, pageVars, tableLang, tcall, currentLang,
                   translations, loads, healthy>>

\* the callback of setTimeout(() => this.resetRateLimit(), delay) runs
TimerFire(i) ==
    /\ i \in 1..Len(timers)
    /\ now >= timers[i]
    /\ LET rest == SubSeq(timers, 1, i-1) \o SubSeq(timers, i+1, Len(timers))
           g0 == [GateOf EXCEPT !.timers = rest,
                                !.resetTimeout = IF i = Len(timers) /\ resetTimeout = "live"
                                                 THEN "dead" ELSE resetTimeout]
           g1 == ResetRateLimit(g0)
       IN  /\ SetGate(g1, capsule.pending, g1.capDisabled, waitlist.pending, g1.wlDisabled,
                      waitlist.removed)
           /\ ev' = [NoEv("timer", "none") EXCEPT !.uncaught = (g1.exc # <<>>),
                                                  !.cancelled = g1.cancelled,
                                                  !.nested = g1.nested,
                                                  !.cause = IF g1.exc # <<>> THEN "exception" ELSE "reset"]
    /\ UNCHANGED <<now, rateLimit, scriptUrl, storageMode, i18nPresent, pageVars, tableLang, tcall, currentLang,
                   translations, loads, calls, healthy>>

\* canSubmit() writing the filtered log back
CallCanSubmitSavesLog ==
    /\ ev' = [NoEv("canSubmit", "none") EXCEPT !.ret = [k |-> CanSubmit(stored), n |-> 0],
                                               !.uncaught = (CanSubmit(stored) = "throw")]
    /\ stored' = IF CanSubmit(stored) = "throw" THEN stored
                 ELSE SaveSubmissionAttempts(stored, Recent(GetSubmissionAttempts(stored).log))
    /\ UNCHANGED <<now, rateLimit, scriptUrl, storageMode, timers, resetTimeout,
                   capsule, waitlist, i18nPresent, pageVars, tableLang, tcall, currentLang,
                   translations, loads, calls, healthy>>

\* a caller of window.formHandler asks canSubmit()
CallCanSubmit ==
    /\ ev' = [NoEv("canSubmit", "none") EXCEPT !.ret = [k |-> CanSubmit(stored), n |-> 0],
                                               !.uncaught = (CanSubmit(stored) = "throw")]
    /\ UNCHANGED <<now, rateLimit, scriptUrl, stored, storageMode, timers, resetTimeout,
                   capsule, waitlist, i18nPresent, pageVars, tableLang, tcall, currentLang, translations, loads,
                   calls, healthy>>

\* a caller of window.formHandler runs resetRateLimit()
CallResetRateLimit ==
    /\ LET g1 == ResetRateLimit(GateOf)
       IN  /\ SetGate(g1, capsule.pending, g1.capDisabled, waitlist.pending, g1.wlDisabled,
                      waitlist.removed)
           /\ ev' = [NoEv("resetRateLimit", "none") EXCEPT
                        !.uncaught = (g1.exc # <<>>),
                        !.cancelled = g1.cancelled,
                        !.nested = g1.nested,
                        !.cause = IF g1.exc # <<>> THEN "exception" ELSE "reset"]
    /\ healthy' = FALSE
    /\ calls' = <<>>
    /\ UNCHANGED <<now, rateLimit, scriptUrl, storageMode, i18nPresent, pageVars, tableLang,
                   tcall, currentLang, translations, loads>>

\* a caller of window.formHandler asks getNextResetTime()
CallGetNextResetTime ==
    /\ LET r == GetNextResetTime(stored)
       IN  ev' = [NoEv("getNextResetTime", "none") EXCEPT
                     !.ret = IF r = -2 THEN [k |-> "throw", n |-> 0]
                             ELSE IF r = -1 THEN [k |-> "null", n |-> 0]
                             ELSE [k |-> "time", n |-> r],
                     !.uncaught = (r = -2)]
    /\ UNCHANGED <<now, rateLimit, scriptUrl, stored, storageMode, timers, resetTimeout,
                   capsule, waitlist, i18nPresent, pageVars, tableLang, tcall, currentLang, translations, loads,
                   calls, healthy>>

\* a caller of window.formHandler runs scheduleRateLimitReset(resetTime)
CallScheduleRateLimitReset(resetTime) ==
    /\ LET g1 == ScheduleRateLimitReset(GateOf, resetTime)
       IN  /\ SetGate(g1, capsule.pending, g1.capDisabled, waitlist.pending, g1.wlDisabled,
                      waitlist.removed)
           /\ ev' = [NoEv("scheduleRateLimitReset", "none") EXCEPT
                        !.ret = [k |-> "resetTime", n |-> resetTime],
                        !.uncaught = (g1.exc # <<>>),
                        !.cancelled = g1.cancelled,
                        !.nested = g1.nested,
                        !.cause = IF g1.exc # <<>> THEN "exception" ELSE "returned"]
    /\ healthy' = FALSE
    /\ calls' = <<>>
    /\ UNCHANGED <<now, rateLimit, scriptUrl, storageMode, i18nPresent, pageVars, tableLang,
                   tcall, currentLang, translations, loads>>

\* the fetch of the i-th pending loadTranslations call settles: with the file's
\* table, or failing (the request rejects, or response.json() does).  A failure of a
\* file other than en.json starts loadTranslations('en'); otherwise the call returns
\* and its caller goes on: setLanguage writes its lang to the URL and dispatches
\* languageChanged with that lang (emitted; "" when no event is dispatched)
LoadSettle(i, table) ==
    /\ i \in 1..Len(loads)
    /\ LET load == loads[i]
           rest == SubSeq(loads, 1, i-1) \o SubSeq(loads, i+1, Len(loads))
           retry == Retries(load, table)
       IN  /\ translations' = IF table # Undef THEN table ELSE translations
           /\ tableLang' = IF table # Undef THEN load.file ELSE tableLang
           /\ loads' = IF retry
                        THEN [loads EXCEPT ![i] = [Load("en", load.lang, load.by) EXCEPT
                                                       !.fetches = load.fetches + 1]]
                        ELSE rest
           /\ urlLang' = IF ~retry /\ load.by = "setLanguage" THEN load.lang ELSE urlLang
           /\ ev' = [NoEv("load", load.by) EXCEPT
                        !.cause = IF retry THEN "retry"
                                  ELSE IF table = Undef THEN "failed"
                                  ELSE IF load.file # load.lang THEN "fallback"
                                  ELSE "loaded",
                        !.emitted = IF ~retry /\ load.by = "setLanguage" THEN load.lang ELSE ""]
    /\ UNCHANGED <<now, rateLimit, scriptUrl, stored, storageMode, timers, resetTimeout,
                   capsule, waitlist, i18nPresent, currentLang, savedLang, browserLang,
                   tcall, calls, healthy>>

\* setLanguage without the comparison with the active language
SetLanguageAlways(lang) ==
    /\ i18nPresent
    /\ Len(loads) < MaxLoads
    /\ currentLang' = lang
    /\ savedLang' = IF storageMode = "ok" THEN lang ELSE savedLang
    /\ loads' = IF storageMode = "ok" THEN Append(loads, Load(lang, lang, "setLanguage")) ELSE loads
    /\ ev' = [NoEv("setLanguage", "none") EXCEPT
                 !.cause = IF lang = currentLang THEN "same" ELSE "switch",
                 !.uncaught = (storageMode # "ok")]
    /\ UNCHANGED <<now, rateLimit, scriptUrl, stored, storageMode, timers, resetTimeout,
                   capsule, waitlist, i18nPresent, translations, tableLang, urlLang,
                   browserLang, tcall, calls, healthy>>

\* setLanguage(lang) up to `await this.loadTranslations(lang)`; localStorage.setItem
\* throws when the storage does not take the write, which ends the call there
SetLanguage(lang) ==
    /\ i18nPresent
    /\ lang = currentLang \/ Len(loads) < MaxLoads
    /\ IF lang = currentLang
       THEN /\ ev' = [NoEv("setLanguage", "none") EXCEPT !.cause = "same"]
            /\ UNCHANGED <<currentLang, savedLang, loads>>
       ELSE /\ currentLang' = lang
            /\ savedLang' = IF storageMode = "ok" THEN lang ELSE savedLang
            /\ loads' = IF storageMode = "ok" THEN Append(loads, Load(lang, lang, "setLanguage"))
                         ELSE loads
            /\ ev' = [NoEv("setLanguage", "none") EXCEPT !.cause = "switch",
                                                       !.uncaught = (storageMode # "ok")]
    /\ UNCHANGED <<now, rateLimit, scriptUrl, stored, storageMode, timers, resetTimeout,
                   capsule, waitlist, i18nPresent, translations, tableLang, urlLang,
                   browserLang, tcall, calls, healthy>>

\* a caller of window.i18n asks t(key, params)
CallT(key, params) ==
    /\ i18nPresent
    /\ tcall' = [key |-> key, params |-> params, out |-> T(key, params)]
    /\ ev' = NoEv("t", "none")
    /\ UNCHANGED <<now, rateLimit, scriptUrl, stored, storageMode, timers, resetTimeout,
                   capsule, waitlist, i18nPresent, currentLang, translations, loads,
                   tableLang, pageVars, calls, healthy>>

Next ==
    \/ Tick
    \/ Reload
    \/ \E m \in {"quota", "denied"} : SetStorageMode(m)
    \/ \E raw \in CapsuleData : HandleTimeCapsuleSubmit(raw)
    \/ \E msg \in FetchErrors \cup {<<>>} : CapsuleSettle(msg)
    \/ \E raw \in WaitlistData : HandleWaitlistSubmit(raw)
    \/ \E msg \in FetchErrors \cup {<<>>} : WaitlistSettle(msg)
    \/ \E i \in 1..Len(timers) : TimerFire(i)

Spec == Init /\ [][Next]_vars

\* a page with i18n.js whose storage works
InitMsg == Start({"ok"}, {"absent"}, {TRUE}, {"", "en"}, {""}, {EnUS}) /\ rateLimit

NextMsg ==
    \/ Tick
    \/ Reload
    \/ \E i \in 1..Len(timers) : TimerFire(i)
    \/ \E raw \in CapsuleData : HandleTimeCapsuleSubmit(raw)
    \/ \E msg \in FetchErrors \cup {<<>>} : CapsuleSettle(msg)
    \/ \E raw \in WaitlistData : HandleWaitlistSubmit(raw)
    \/ \E msg \in FetchErrors \cup {<<>>} : WaitlistSettle(msg)
    \/ \E i \in 1..Len(loads) : \E table \in FileTables \cup {Undef} : LoadSettle(i, table)

SpecMsg == InitMsg /\ [][NextMsg]_vars

\* the methods of window.formHandler called from outside, on a page whose form
\* endpoint is not configured
InitApi == Start({"ok"}, StoredKinds \ {"array"}, {FALSE}, {""}, {""}, {EnUS}) /\ ~scriptUrl

NextApi ==
    \/ Tick
    \/ Reload
    \/ \E m \in {"quota", "denied"} : SetStorageMode(m)
    \/ \E raw \in CapsuleData : HandleTimeCapsuleSubmit(raw)
    \/ \E raw \in WaitlistData : HandleWaitlistSubmit(raw)
    \/ \E i \in 1..Len(timers) : TimerFire(i)
    \/ CallCanSubmit
    \/ CallGetNextResetTime
    \/ CallResetRateLimit

SpecApi == InitApi /\ [][NextApi]_vars

\* scheduleRateLimitReset called from outside with any instant, on a page whose form
\* endpoint is not configured and whose storage works
NextSchedule ==
    \/ Tick
    \/ Reload
    \/ \E raw \in CapsuleData : HandleTimeCapsuleSubmit(raw)
    \/ \E raw \in WaitlistData : HandleWaitlistSubmit(raw)
    \/ \E i \in 1..Len(timers) : TimerFire(i)
    \/ \E resetTime \in 0..MaxTime : CallScheduleRateLimitReset(resetTime)

SpecSchedule == InitApi /\ [][NextSchedule]_vars

\* the calls of t() on a page whose tables hold nested entries and placeholders
InitT == Start({"ok"}, {"absent"}, {TRUE}, {""}, {""}, {EnUS}) /\ rateLimit /\ scriptUrl

NextT ==
    \/ \E i \in 1..Len(loads) : \E table \in TTables \cup {Undef} : LoadSettle(i, table)
    \/ \E key \in TKeys : \E params \in TParams : CallT(key, params)

SpecT == InitT /\ [][NextT]_vars

\* the first load of the page by visitors with any address, persisted choice and locale
InitDetect ==
    Start({"ok"}, {"absent"}, {TRUE}, Urls, Saveds, {l.text : l \in Locales})
    /\ rateLimit /\ scriptUrl

NextDetect ==
    \/ Reload
    \/ \E i \in 1..Len(loads) : \E table \in {FileOf(loads[i].file), Undef} : LoadSettle(i, table)

SpecDetect == InitDetect /\ [][NextDetect]_vars

\* the languages the selector's options may ask for: the supported ones, and one
\* that has no translations file
SwitchLangs == Langs \cup {"fr"}

\* the answers a fetch of translations/<file>.json may get
Fetched(file) == IF file \in Langs THEN {FileOf(file), Undef} ELSE {Undef}

\* language switches on a page whose storage works
InitLang ==
    Start({"ok"}, {"absent"}, {TRUE}, {""}, {""}, {EnUS}) /\ rateLimit /\ scriptUrl

NextLang ==
    \/ Reload
    \/ \E lang \in SwitchLangs : SetLanguage(lang)
    \/ \E i \in 1..Len(loads) : \E table \in Fetched(loads[i].file) : LoadSettle(i, table)

SpecLang == InitLang /\ [][NextLang]_vars

\* page loads in the default language or in English, and rate limiter calls, on one
\* page: the form endpoint is not configured, the storage works
InitBoth ==
    Start({"ok"}, {"absent"}, {TRUE}, {"", "en"}, {""}, {EnUS}) /\ rateLimit /\ ~scriptUrl

NextBoth ==
    \/ Tick
    \/ Reload
    \/ \E raw \in GoodCapsuleData : HandleTimeCapsuleSubmit(raw)
    \/ \E i \in 1..Len(timers) : TimerFire(i)
    \/ \E resetTime \in 0..MaxTime : CallScheduleRateLimitReset(resetTime)
    \/ \E i \in 1..Len(loads) : \E table \in Fetched(loads[i].file) : LoadSettle(i, table)

SpecBoth == InitBoth /\ [][NextBoth]_vars

\* ------------------------------------------------------------------ claims
\* the recordSubmission() calls made within the trailing window, counted the way the
\* code's filter counts (timestamp > now - Window)
CallsInWindow == Len(SelectSeq(calls, LAMBDA t : t > now - Window))

\* every entry of the persisted log lies in [now - Window, now]
LogInWindow == \A i \in 1..Len(stored.log) : stored.log[i] >= now - Window /\ stored.log[i] <= now

\* C1: with a RATE_LIMIT policy and storage that has always worked, canSubmit() returns
\* false exactly when the number of recordSubmission() calls within the trailing
\* window is >= MAX_ATTEMPTS_PER_HOUR.
C1_CanSubmitCountsWindow ==
    (rateLimit /\ healthy) =>
        ((CanSubmit(stored) = "false") <=> (CallsInWindow >= MaxAttempts))

\* C2 (as claimed): after every operation that reads and filters the log (canSubmit,
\* checkAndUpdateRateLimitDisplay, getNextResetTime) or writes it (recordSubmission),
\* the persisted log contains only timestamps inside the current window.
C2_LogPrunedAfterEveryRead ==
    (rateLimit /\ (ev.op \in {"submit", "settle", "init", "canSubmit", "getNextResetTime"}))
        => LogInWindow

\* C2 (amended): after a recordSubmission() whose storage write succeeds the persisted
\* log contains only timestamps inside the current window; canSubmit,
\* checkAndUpdateRateLimitDisplay and getNextResetTime filter a copy and leave the
\* persisted log as it was.
C2_LogPrunedAfterRecordOnly ==
    [][ /\ (ev'.recorded /\ storageMode' = "ok") =>
              (\A i \in 1..Len(stored'.log) :
                   stored'.log[i] >= now' - Window /\ stored'.log[i] <= now')
        /\ (~ev'.recorded /\ ev'.op \in {"submit", "init", "canSubmit", "getNextResetTime"})
              => stored' = stored ]_vars

\* C2 witness: a recordSubmission() wrote the log at a time when entries of an
\* earlier window could be in it
C2_Witness ==
    /\ ev.recorded /\ storageMode = "ok" /\ rateLimit
    /\ now > Window
    /\ stored.kind = "array" /\ stored.log = <<now>>

\* the persisted log was written with a new entry in this step
LogGains == stored'.kind = "array" /\ stored' # stored

\* C3 (as claimed): the log gains an entry only when the submission's network call
\* completed without error; a submission that is denied, fails validation or whose
\* network call rejects leaves the persisted log unchanged.
C3_RecordOnlyAfterNetworkSuccess ==
    [][ /\ LogGains => (ev'.op = "settle" /\ ev'.cause # "rejected")
        /\ ev'.cause \in {"denied", "invalid", "rejected"} => stored' = stored ]_vars

\* C3 (amended): the log gains an entry only when submitToGoogleScript reported
\* success: the network call completed without error, or no GOOGLE_SCRIPT_URL is
\* configured and the call is skipped; a submission that is denied, fails validation
\* or whose network call rejects leaves the persisted log unchanged.
C3_RecordOnlyAfterReportedSuccess ==
    [][ /\ LogGains => \/ ev'.op = "settle" /\ ev'.cause # "rejected"
                       \/ ev'.op = "submit" /\ ~scriptUrl /\ ~ev'.invalid
                          /\ ev'.cause \notin {"denied", "invalid", "rejected"}
        /\ ev'.cause \in {"denied", "invalid", "rejected"} => stored' = stored ]_vars

\* C3 witness: a network call completed without error and its entry is in the log
C3_Witness ==
    /\ ev.op = "settle" /\ ev.cause = "success" /\ scriptUrl
    /\ stored.kind = "array" /\ stored.log # <<>>
    /\ stored.log[Len(stored.log)] = now

\* C4: at most one rate-limit reset timer is pending: scheduling a new deferred reset
\* cancels the previously pending one.
C4_AtMostOneResetTimer == Len(timers) <= 1

\* C4 witness: a reset was scheduled while another was pending, which was cancelled
C4_Witness == ev.cancelled /\ Len(timers) = 1 /\ resetTimeout = "live"

C6_ReadsFailOpen ==
    (rateLimit /\ (stored.kind # "array" \/ storageMode = "denied")) =>
        (CanSubmit(stored) = "true" /\ ~ev.uncaught)

\* C7: a storage write that fails in recordSubmission() after a successful network
\* call, or a removal that fails in resetRateLimit(), is dropped silently: the
\* submission is reported as successful, no error is shown, nothing is left uncaught.
C7_WriteFailuresSilent ==
    /\ (rateLimit /\ ev.recorded /\ storageMode # "ok" /\ stored.kind # "nonarray") =>
           (ev.cause = "success" /\ ev.shown.kind = "none" /\ ~ev.uncaught)
    /\ (rateLimit /\ ev.op = "timer" /\ storageMode = "denied") => ~ev.uncaught

\* C8: a submit event whose data fails validation issues no network call.
C8_InvalidNeverPosted == ev.invalid => ~ev.posted

\* C8 witness: a submit with malformed data reached the validation of a page whose
\* endpoint is configured, and was stopped there
C8_Witness == ev.op = "submit" /\ ev.invalid /\ ev.cause = "invalid" /\ scriptUrl

\* C9: the error kind of the message finally left on display matches the cause of the
\* failure: validationError for a validation failure, rateLimitError for a gate
\* denial, networkError or serverError for a rejected network call, unknownError only
\* for other failures.
C9_ErrorKindMatchesCause ==
    /\ ev.cause = "invalid" => ev.shown.kind = "validationError"
    /\ ev.cause = "denied" => ev.shown.kind = "rateLimitError"
    /\ ev.cause = "rejected" => ev.shown.kind \in {"networkError", "serverError"}
    /\ ev.shown.kind = "unknownError" => ev.cause = "exception"

\* C10: the error modal shows the localized text when the table holds errorModal.<kind>
\* and otherwise a human-readable fallback, never the raw key path.
C10_LocalizedOrFallback ==
    ev.shown.kind # "none" =>
        LET entry == Walk(translations, <<<<"errorModal">>, <<ev.shown.kind>>>>)
        IN  /\ ev.shown.text.t = "str"
            /\ IF i18nPresent /\ entry.t = "str"
               THEN ev.shown.text = entry
               ELSE ev.shown.text.v # ErrorKey(ev.shown.kind)

\* the key's segments name a position of the table: each one is an entry of the
\* object reached so far
RECURSIVE NamesPosition(_, _)
NamesPosition(value, keys) ==
    \/ keys = <<>>
    \/ /\ value.t = "obj"
       /\ Head(keys) \in DOMAIN value.v
       /\ NamesPosition(value.v[Head(keys)], Tail(keys))

\* C11: for every table and every dotted key path that does not name a position in
\* the table (a missing segment at any depth, also below a leaf string), t(keyPath)
\* returns the keyPath string itself.
C11_MissingKeyReturnsKey ==
    (ev.op = "t" /\ ~NamesPosition(translations, Split(tcall.key))) =>
        tcall.out = Str(tcall.key)

\* the leaf with every {{name}} whose name is a key of params replaced by params[name]
\* and every other placeholder left as it is
RECURSIVE Substituted(_, _)
Substituted(s, params) ==
    IF s = <<>> THEN <<>>
    ELSE IF Len(s) >= 3 /\ s[1] = "{{" /\ s[3] = "}}" /\ s[2] \in DOMAIN params
         THEN params[s[2]] \o Substituted(SubSeq(s, 4, Len(s)), params)
         ELSE <<Head(s)>> \o Substituted(Tail(s), params)

\* C12: for every leaf string and every params mapping, t() replaces each {{name}}
\* by params[name] whenever name is a key of params, whatever its value (the empty
\* string included), and leaves the placeholder intact exactly when name is no key
\* of params.
C12_PlaceholdersSubstituted ==
    LET keys == Split(tcall.key)
        leaf == Walk(translations, keys)
    IN  (ev.op = "t" /\ NamesPosition(translations, keys) /\ leaf.t = "str") =>
            tcall.out = Str(Substituted(leaf.v, tcall.params))

C14_FallbackTableLoaded ==
    /\ (ev.op = "load" /\ ev.cause \in {"fallback", "failed"}) =>
           (tableLang = "en" /\ translations = FileOf("en"))
    /\ (ev.op = "load" /\ ev.form = "init" /\ ev.cause \in {"loaded", "fallback", "failed"}) =>
           translations # EmptyTable

\* the supported language a locale belongs to, "" for none
LocaleLang(text) == (CHOOSE l \in Locales : l.text = text).lang

\* C15: for every URL lang parameter, persisted value and browser locale,
\* detectLanguage() returns the URL value if it is a supported language; else the
\* persisted value if supported; else the supported language (en, id or ar) that the
\* browser locale matches; else the fixed default (id).
C15_DetectionPrecedence ==
    (i18nPresent /\ ev.op \in {"init", "load"}) =>
        currentLang = IF urlLang \in Langs THEN urlLang
                      ELSE IF savedLang \in Langs THEN savedLang
                      ELSE IF LocaleLang(browserLang) # "" THEN LocaleLang(browserLang)
                      ELSE "id"

\* C16: once every issued setLanguage call has settled, with calls issued while an
\* earlier call's fetch is pending and fetches settling in any order, the language
\* persisted in local storage and the lang URL parameter both equal currentLang, so
\* that a reload detects the same language.
C16_PersistedLanguageAgrees ==
    ( /\ ev.op = "load" /\ ev.form = "setLanguage"
      /\ ev.cause \in {"loaded", "fallback", "failed"}
      /\ \A i \in 1..Len(loads) : loads[i].by # "setLanguage" ) =>
        /\ savedLang = currentLang
        /\ urlLang = currentLang
        /\ currentLang \in Langs => DetectLanguage(urlLang, savedLang, browserLang) = currentLang

\* C17: canSubmit() is side-effect-free: in every state it leaves the persisted
\* attempt log, the pending reset timer and the submit controls unchanged.
C17_CanSubmitNoSideEffect ==
    [][ ev'.op = "canSubmit" =>
            UNCHANGED <<stored, timers, resetTimeout, capsule, waitlist>> ]_vars

\* C17 witness: canSubmit() answered true over a log that holds an expired entry,
\* which is still there
C17_Witness ==
    /\ ev.op = "canSubmit" /\ ev.ret.k = "true" /\ rateLimit
    /\ stored.kind = "array"
    /\ \E i \in 1..Len(stored.log) : stored.log[i] <= now - Window

\* the entries of a log that are not older than the window
NotOlder(log) == SelectSeq(log, LAMBDA t : t >= now - Window)

\* the most entries the log can hold: one less than the maximum when a submission is
\* let through, and one more for every network call that may then be pending
LogBound == MaxAttempts - 1 + 2 * MaxPending

\* C18: an attempt older than the window never counts toward canSubmit() nor toward
\* the remaining count of checkAndUpdateRateLimitDisplay (what it displays and
\* schedules is what it would with those entries removed), however many have
\* accumulated; and the number of entries of the persisted log stays bounded over
\* runs that cross window boundaries.
C18_OldAttemptsNeverCount ==
    rateLimit =>
        LET pruned == [stored EXCEPT !.log = NotOlder(stored.log)]
            a == CheckAndUpdateRateLimitDisplay(GateOf)
            b == CheckAndUpdateRateLimitDisplay([GateOf EXCEPT !.stored = pruned])
        IN  /\ CanSubmit(stored) = CanSubmit(pruned)
            /\ a.capDisabled = b.capDisabled /\ a.wlDisabled = b.wlDisabled
            /\ a.timers = b.timers /\ a.exc = b.exc
            /\ Len(stored.log) <= LogBound

\* C18 witness: the log holds MAX_ATTEMPTS_PER_HOUR entries, all older than the
\* window, and canSubmit() is true
C18_Witness ==
    /\ rateLimit /\ stored.kind = "array"
    /\ Len(stored.log) >= MaxAttempts
    /\ \A i \in 1..Len(stored.log) : stored.log[i] < now - Window
    /\ CanSubmit(stored) = "true"

\* C19: when no RATE_LIMIT policy is configured the gate is disabled: canSubmit()
\* returns true in every state, and no step (recordSubmission after a submission,
\* checkAndUpdateRateLimitDisplay on load, resetRateLimit) touches the storage, which
\* may hold anything and may throw on every access, or schedules a timer.
C19_NoPolicyGateDisabled ==
    [][ ~rateLimit =>
            /\ CanSubmit(stored) = "true" /\ CanSubmit(stored') = "true"
            /\ stored' = stored
            /\ timers' = <<>> /\ resetTimeout' = "unset"
            /\ ~ev'.uncaught ]_vars

\* C19 witness: without a policy, resetRateLimit() ran over a storage that throws on
\* every access and holds a value that is no array, and left it alone
C19_Witness ==
    /\ ~rateLimit /\ ev.op = "resetRateLimit" /\ ev.cause = "reset"
    /\ storageMode = "denied" /\ stored.kind = "nonarray"

\* C20: whenever the scheduled reset fires and clears the attempt log, the window has
\* fully elapsed for every entry it removes: no attempt still inside the trailing
\* window is deleted by the timer-driven reset.
C20_ResetRemovesOnlyExpired ==
    [][ (ev'.op = "timer" /\ rateLimit /\ stored.kind = "array" /\ stored'.kind = "absent") =>
            \A i \in 1..Len(stored.log) : stored.log[i] + Window <= now ]_vars

\* the attempts the gate reads and counts: entries of the persisted log later than
\* now - Window, none when the storage cannot be read
Counted ==
    IF rateLimit /\ storageMode # "denied" /\ stored.kind = "array"
    THEN SelectSeq(stored.log, LAMBDA t : t > now - Window)
    ELSE <<>>

\* the gate is at capacity: as many counted attempts as the policy allows, or more
AtCapacity == rateLimit /\ Len(Counted) >= MaxAttempts

\* C21: whenever an evaluation of the gate (at page load, or after recordSubmission)
\* finds the remaining count 0, a reset is pending afterwards, and the instant at
\* which it fires is exactly the oldest counted attempt plus the window.
C21_ResetPendingAtCapacity ==
    (ev.op = "init" \/ (ev.op \in {"submit", "settle"} /\ ev.recorded /\ ~ev.uncaught)) =>
        (AtCapacity =>
            /\ resetTimeout = "live"
            /\ timers # <<>>
            /\ timers[Len(timers)] = Min(Counted) + Window)

\* C21 witness: a recorded submission filled the gate while an earlier attempt was
\* already one instant old, and the reset is set for that attempt's expiry
C21_Witness ==
    /\ ev.op \in {"submit", "settle"} /\ ev.recorded
    /\ AtCapacity
    /\ Min(Counted) < now
    /\ timers = <<Min(Counted) + Window>>

\* time passes, and a timer whose instant has come runs
Fairness == WF_vars(Tick) /\ WF_vars(\E i \in 1..Len(timers) : TimerFire(i))

SpecLive == Spec /\ Fairness

\* every counted attempt leaves the window within the modelled time
ExpiresInTime == \A i \in 1..Len(Counted) : Counted[i] + Window <= MaxTime

\* canSubmit() is true and the submit controls of both forms are enabled
GateOpen == CanSubmit(stored) = "true" /\ ~capsule.disabled /\ ~waitlist.disabled

\* C22: if the gate is at capacity and no further attempt is recorded, then as time
\* advances (the reset timer firing when due) a state is eventually reached in which
\* canSubmit() is true and the submit controls of both forms are enabled.
C22_GateReopens == (AtCapacity /\ ExpiresInTime) ~> (GateOpen \/ ev.recorded)

\* the gate reopens in every run whose storage keeps working
C22_GateReopensStorageWorking ==
    (AtCapacity /\ ExpiresInTime) ~> (GateOpen \/ ev.recorded \/ storageMode # "ok")

\* the persisted log can be read as an array
Readable == rateLimit /\ storageMode # "denied" /\ stored.kind = "array"

\* the entries of the persisted log inside the closed window [now - Window, now]
CountedClosed == SelectSeq(stored.log, LAMBDA t : t >= now - Window)

C24_ImmediateResetLeavesNoTimer ==
    (ev.op = "scheduleRateLimitReset" /\ ev.ret.n <= now /\ ~ev.uncaught) =>
        /\ rateLimit => stored = Absent
        /\ timers = <<>>

\* the reset ran at once and created no timer: the log is gone and the only timers
\* pending are older ones
C24_ImmediateResetRan ==
    [][ (ev'.op = "scheduleRateLimitReset" /\ ev'.ret.n <= now) =>
            /\ rateLimit => stored' = Absent
            /\ timers' = timers ]_vars

\* C25: once every setLanguage call has settled, in whatever order the fetches
\* completed, the loaded table is the one fetched for currentLang (or the fallback
\* table when that fetch failed), never the table of a language requested earlier.
C25_TableOfActiveLanguage ==
    ( /\ loads = <<>>
      /\ ev.op = "load" /\ ev.form = "setLanguage" /\ ev.cause \in {"loaded", "fallback"} ) =>
        tableLang = IF ev.cause = "loaded" THEN currentLang ELSE "en"

\* the network calls in flight, of both forms
InFlight == capsule.pending + waitlist.pending

\* C26: every submit event on either form issues at most one POST, and none when
\* canSubmit() is false at the time of the event; a denied submit shows the
\* rate-limit error.
C26_SubmitPostsAtMostOnce ==
    [][ ev'.op = "submit" =>
            /\ InFlight' - InFlight \in {0, 1}
            /\ ev'.posted = (InFlight' = InFlight + 1)
            /\ AtCapacity =>
                  /\ InFlight' = InFlight
                  /\ ev'.shown.kind = "rateLimitError"
                  /\ ev'.shown.text = Str(BlockMessage)
                  /\ stored' = stored ]_vars

\* C26 witness: a submit event arrived on the capsule form of a page with a form
\* endpoint while the gate was at capacity; it was denied and posted nothing
C26_Witness ==
    /\ ev.op = "submit" /\ ev.form = "capsule" /\ ev.cause = "denied"
    /\ scriptUrl /\ AtCapacity
    /\ ~ev.posted /\ ev.shown.kind = "rateLimitError"

\* C27: a setLanguage(lang) call with lang other than the active language sets the
\* active language and persists it at once, and emits its languageChanged event,
\* carrying lang, only after the table has been replaced by the table fetched for
\* lang (or by the fallback table) and lang has been written to the URL.
C27_EventAfterTableAndUrl ==
    ev.emitted # "" =>
        /\ urlLang = ev.emitted
        /\ tableLang \in {ev.emitted, "en"}

\* the steps of setLanguage in their order: the call sets and persists the language
\* and emits nothing; the end of its fetch writes the URL and emits one event carrying
\* the language of the call
C27_StepsInOrder ==
    [][ /\ (ev'.op = "setLanguage" /\ ev'.cause = "switch") =>
              /\ savedLang' = currentLang' /\ ev'.emitted = ""
              /\ UNCHANGED <<urlLang, translations>>
        /\ ev'.emitted # "" =>
              /\ \E i \in 1..Len(loads) :
                    /\ loads[i].by = "setLanguage" /\ loads[i].lang = ev'.emitted
                    /\ loads' = SubSeq(loads, 1, i-1) \o SubSeq(loads, i+1, Len(loads))
              /\ urlLang' = ev'.emitted ]_vars

\* C28: in every reachable state, after any setLanguage calls with whatever
\* arguments, currentLang is one of the supported languages en, id and ar.
C28_CurrentLangSupported == currentLang \in Langs

\* C29: also with submissions of the capsule form and of the waitlist form in flight
\* at the same time, the number of attempts recorded within the trailing window
\* never exceeds MAX_ATTEMPTS_PER_HOUR.
C29_NeverMoreThanMaxRecorded == rateLimit => Len(Counted) <= MaxAttempts

\* C30: after handleTimeCapsuleSubmit has completed, with success or with failure,
\* the capsule form's submit control is disabled exactly when the gate is at
\* capacity; the submission that takes the last free slot leaves it disabled.
C30_CapsuleControlFollowsGate ==
    (ev.form = "capsule" /\ ev.op \in {"submit", "settle"} /\ ev.cause # "pending"
                         /\ ~ev.uncaught) =>
        (capsule.disabled <=> AtCapacity)

\* C31: after a waitlist submission that fails (the email is invalid, or the network
\* call is reported as failed) while the gate still has capacity, the waitlist
\* form's submit control is enabled again, so that the visitor can retry at once.
C31_WaitlistRetryPossible ==
    ( /\ ev.form = "waitlist" /\ ev.op \in {"submit", "settle"}
      /\ ev.cause \in {"invalid", "rejected"}
      /\ ~AtCapacity ) =>
        ~waitlist.disabled

\* C32: for every language and every combination of fetch outcomes
\* loadTranslations(lang) ends after at most two fetches, that of lang and then at
\* most one of the fallback en; and the calls between resetRateLimit,
\* checkAndUpdateRateLimitDisplay and scheduleRateLimitReset end: a handler runs each
\* of them at most once, and a reset, from the timer or at once, schedules nothing.
C32_LoadsAndResetsTerminate ==
    /\ \A i \in 1..Len(loads) :
          /\ loads[i].fetches <= 2
          /\ loads[i].fetches = 2 => (loads[i].file = "en" /\ loads[i].lang # "en")
    /\ (ev.op = "load" /\ ev.cause = "retry") =>
          \E i \in 1..Len(loads) : loads[i].fetches = 2
    /\ ev.nested <= 3
    /\ ev.op \in {"timer", "resetRateLimit"} => ev.nested <= 2
    /\ (ev.op = "scheduleRateLimitReset" /\ ev.ret.n <= now /\ rateLimit /\ ~ev.uncaught) =>
          stored = Absent
    /\ (ev.op = "scheduleRateLimitReset" /\ ev.ret.n > now) => ev.nested = 1
    /\ ev.op \in {"init", "submit", "settle"} => ev.nested <= 2

\* C32 witness: scheduleRateLimitReset was called for an instant already reached while
\* a timer was pending, and ran the reset at once; meanwhile the fetch of the fallback
\* table is pending for a language whose own fetch failed
C32_Witness ==
    /\ ev.op = "scheduleRateLimitReset" /\ ev.ret.n <= now /\ ev.nested = 3
    /\ timers # <<>>
    /\ \E i \in 1..Len(loads) : loads[i].fetches = 2 /\ loads[i].lang = "id"

====
